---- MODULE Spec2Model ----
(***************************************************************************)
(* A model of the browser-side scripts of icfpdx.org:                      *)
(*   - fetchWithRetry, the retry-with-backoff wrapper (part_000);          *)
(*   - updateCountdowns for the weekly events (part_001);                  *)
(*   - updateCountdowns over dated event cards (script.js and part_000);   *)
(*   - the verse search handlers searchBible (script.js) and               *)
(*     searchBibleVerse (part_000);                                        *)
(*   - the daily verse handlers loadDailyVerse (script.js) and             *)
(*     fetchDailyDevotion (part_000).                                      *)
(* Each part of the page has its own specification; the variables of the   *)
(* other parts stay at their initial value under it.                       *)
(***************************************************************************)
EXTENDS Integers, Sequences, FiniteSets, TLC

VARIABLES
    rt,         \* fetchWithRetry: the locals of the one invocation
    calls,      \* history: the number of fetcher() calls made
    outcomes,   \* history: what each fetcher() call settled with
    delays,     \* history: the delay of each setTimeout wait, in ms
    rnow,       \* weekly events page: the clock, a local date and time
    rlast,      \* weekly events page: what the last updateCountdowns computed
    cards,      \* event cards page: the data-date attribute of each .event-card
    cnow,       \* event cards page: the clock, in ms
    sj,         \* script.js: what the page shows (each card's countdown and classes, the banner)
    p0,         \* part_000: what the page shows (each card's countdown and classes, the banner)
    page,       \* verse search: the script the page runs, script.js or part_000
    reqs,       \* verse search: the runs of the search handler, in the order of the clicks
    dom,        \* verse search: the result, error and loading elements
    dv,         \* daily verse: the one run of loadDailyVerse / fetchDailyDevotion
    vdom        \* daily verse: the text of the #verse and #reference elements

retryVars == <<rt, calls, outcomes, delays>>

recurVars == <<rnow, rlast>>

cardVars == <<cards, cnow, sj, p0>>

searchVars == <<page, reqs, dom>>

dailyVars == <<dv, vdom>>

vars ==
    <<rt, calls, outcomes, delays, rnow, rlast, cards, cnow, sj, p0, page, reqs, dom,
      dv, vdom>>

nonRetryVars == <<recurVars, cardVars, searchVars, dailyVars>>

nonRecurVars == <<retryVars, cardVars, searchVars, dailyVars>>

nonCardVars == <<retryVars, recurVars, searchVars, dailyVars>>

nonSearchVars == <<retryVars, recurVars, cardVars, dailyVars>>

\* the daily verse handlers read page and leave it alone
nonDailyVars == <<retryVars, recurVars, cardVars, reqs, dom>>

\* The value of a variable nothing has written yet.
Unset == [kind |-> "unset"]

\* The weekly events page before its script runs (under the other specifications).
RecurIdle ==
    /\ rnow = [day |-> 0, hour |-> 0, minute |-> 0, second |-> 0, ms |-> 0]
    /\ rlast = Unset

\* The event cards page before its script runs (under the other specifications).
CardsIdle ==
    /\ cards = <<>>
    /\ cnow = 0
    /\ sj = Unset
    /\ p0 = Unset

\* What an element holds: nothing, a verse, or a message; of is the run of the
\* search handler that wrote it.
Content(kind, of, msg) == [kind |-> kind, of |-> of, msg |-> msg]

\* The elements of the verse search as the markup gives them.
InitialDom ==
    [resultDisplay |-> "", resultContent |-> Content("empty", 0, ""),
     errorDisplay |-> "none", errorContent |-> Content("empty", 0, ""),
     loadingDisplay |-> "none"]

\* The verse search before anyone uses it (under the other specifications).
SearchIdle ==
    /\ page = "script.js"
    /\ reqs = <<>>
    /\ dom = InitialDom

(***************************************************************************)
(* fetchWithRetry (part_000, lines 26-52)                                  *)
(***************************************************************************)

\* const MAX_RETRIES = 5
MAX_RETRIES == 5

\* The largest maxRetries argument the model passes.
MaxRetriesArg == 5

\* Math.random() * 1000 lies in [0, 1000): both ends of the range, in ms.
JitterSamples == {0, 999}

\* What the id-th fetcher() call settles with: a Response object (ok is status
\* 200-299) or a rejection (a transport error); id tells the objects apart.
FetcherResults(id) ==
    { [kind |-> "response", ok |-> TRUE,  status |-> 200, id |-> id],
      [kind |-> "response", ok |-> FALSE, status |-> 429, id |-> id],
      [kind |-> "response", ok |-> FALSE, status |-> 500, id |-> id],
      [kind |-> "reject",   ok |-> FALSE, status |-> 0,   id |-> id] }

NoValue == [kind |-> "none"]

RECURSIVE Pow2(_)
\* Math.pow(2, i)
Pow2(i) == IF i = 0 THEN 1 ELSE 2 * Pow2(i - 1)

RateLimitDelayFlat(i, jitter) == 1000 + jitter

\* line 34: the delay of the 429 branch
RateLimitDelay(i, jitter) == Pow2(i) * 1000 + jitter

ErrorDelayFlat(i, jitter) == 1000 + jitter

\* line 47: the delay of the catch branch
ErrorDelay(i, jitter) == Pow2(i) * 1000 + jitter

\* line 39: new Error(`API call failed with status: ${response.status} ...`),
\* thrown inside the try block of attempt i
StatusError(resp, i) == [kind |-> "error", of |-> "status", status |-> resp.status, attempt |-> i]

\* The rejection of the fetcher() call of attempt i, as the catch block sees it.
TransportError(i) == [kind |-> "error", of |-> "transport", status |-> 0, attempt |-> i]

OnOkContinue(st, resp) == [st EXCEPT !.pc = "waiting", !.delay = 0]

\* lines 30-31: if (response.ok) return response
OnOk(st, resp) == [st EXCEPT !.pc = "returned", !.result = resp]

\* lines 32-36: the 429 branch waits inside the try block
OnRateLimited(st, jitter) ==
    [st EXCEPT !.pc = "waiting", !.delay = RateLimitDelay(st.i, jitter)]

OnCatchGeneric(st, error, jitter) ==
    IF st.i = st.maxRetries - 1
    THEN [st EXCEPT !.pc = "thrown",
                    !.error = [kind |-> "error", of |-> "generic", status |-> 0, attempt |-> st.i]]
    ELSE [st EXCEPT !.pc = "waiting", !.delay = ErrorDelay(st.i, jitter)]

\* lines 41-50: the catch block
OnCatch(st, error, jitter) ==
    IF st.i = st.maxRetries - 1
    THEN [st EXCEPT !.pc = "thrown", !.error = error]
    ELSE [st EXCEPT !.pc = "waiting", !.delay = ErrorDelay(st.i, jitter)]

\* lines 28-50: the body of the loop once fetcher() has settled with res
AfterFetch(st, res, jitter) ==
    IF res.kind = "reject"
    THEN OnCatch(st, TransportError(st.i), jitter)
    ELSE IF res.ok
    THEN OnOk(st, res)
    ELSE IF res.status = 429 /\ st.i < st.maxRetries - 1
    THEN OnRateLimited(st, jitter)
    ELSE OnCatch(st, StatusError(res, st.i), jitter)

\* line 27: the loop test, with i as it stands
LoopTest(st) ==
    IF st.i < st.maxRetries
    THEN [st EXCEPT !.pc = "fetching"]
    ELSE [st EXCEPT !.pc = "fellthrough"]   \* the function ends without a return

RetryIdle ==
    [pc |-> "idle", maxRetries |-> MAX_RETRIES, i |-> 0, delay |-> 0,
     result |-> NoValue, error |-> NoValue]

\* fetchWithRetry(fetcher, maxRetries): the call enters the loop
StartRetry(maxRetries) == LoopTest([RetryIdle EXCEPT !.maxRetries = maxRetries])

\* line 27, i++: the setTimeout promise of the wait resolves
AfterWait(st) == LoopTest([st EXCEPT !.i = st.i + 1, !.delay = 0])

\* The run of the daily verse handler: pc is where it stands ("idle", "fetch",
\* "retry", "json" or "done"), st the locals of its fetchWithRetry call, failure
\* the failure its request has met ("none" while it has met none).
Daily(pc, st, failure) == [pc |-> pc, st |-> st, failure |-> failure]

\* The #verse and #reference elements as the markup gives them.
InitialVerseDom == [verse |-> "markup", reference |-> "markup"]

\* The daily verse before the page's load handler runs.
DailyIdle ==
    /\ dv = Daily("idle", RetryIdle, "none")
    /\ vdom = InitialVerseDom

RetryInit ==
    /\ rt = RetryIdle
    /\ calls = 0
    /\ outcomes = <<>>
    /\ delays = <<>>
    /\ RecurIdle
    /\ CardsIdle
    /\ SearchIdle
    /\ DailyIdle

Invoke ==
    /\ rt.pc = "idle"
    /\ \E n \in 0..MaxRetriesArg : rt' = StartRetry(n)
    /\ UNCHANGED <<calls, outcomes, delays>>
    /\ UNCHANGED nonRetryVars

FetcherSettles ==
    /\ rt.pc = "fetching"
    /\ \E res \in FetcherResults(calls + 1), jitter \in JitterSamples :
          /\ rt' = AfterFetch(rt, res, jitter)
          /\ outcomes' = Append(outcomes, res)
    /\ calls' = calls + 1
    /\ delays' = IF rt'.pc = "waiting" THEN Append(delays, rt'.delay) ELSE delays
    /\ UNCHANGED nonRetryVars

TimerFires ==
    /\ rt.pc = "waiting"
    /\ rt' = AfterWait(rt)
    /\ UNCHANGED <<calls, outcomes, delays>>
    /\ UNCHANGED nonRetryVars

RetryNext == Invoke \/ FetcherSettles \/ TimerFires

SpecRetry == RetryInit /\ [][RetryNext]_vars

RetryDone == rt.pc \in {"returned", "thrown", "fellthrough"}

RateLimited(res) == res.kind = "response" /\ ~res.ok /\ res.status = 429

\* a non-ok response that is not a 429, or a rejected fetcher() call
OtherFailure(res) == res.kind = "reject" \/ (~res.ok /\ res.status # 429)

Failed(res) == res.kind = "reject" \/ ~res.ok

AllRateLimited == \A k \in 1..Len(outcomes) : RateLimited(outcomes[k])

AllFailed == \A k \in 1..Len(outcomes) : Failed(outcomes[k])

NonDecreasing(ds) == \A k \in 1..(Len(ds) - 1) : ds[k] <= ds[k + 1]

\* The error the catch block holds for a failed outcome of attempt i.
ErrorOf(res, i) == IF res.kind = "reject" THEN TransportError(i) ELSE StatusError(res, i)

(* C1: with maxRetries = 5 and a fetcher that always answers 429, the fetcher
   is called exactly 5 times, the waits between the attempts never get
   shorter whatever the jitter, and the call ends by throwing after the 5th
   attempt, without a wait after it. *)
C1_AlwaysRateLimited ==
    (rt.pc # "idle" /\ rt.maxRetries = MAX_RETRIES /\ AllRateLimited) =>
        /\ calls <= MAX_RETRIES
        /\ Len(outcomes) = calls
        /\ NonDecreasing(delays)
        /\ Len(delays) = (IF rt.pc = "thrown" THEN calls - 1 ELSE calls)
        /\ rt.pc \in {"fetching", "waiting", "thrown"}
        /\ (rt.pc = "thrown" <=> (calls = MAX_RETRIES))
        /\ (rt.pc = "thrown" => Len(delays) = MAX_RETRIES - 1)

C1_Witness ==
    /\ rt.maxRetries = MAX_RETRIES /\ AllRateLimited
    /\ rt.pc = "thrown" /\ calls = MAX_RETRIES
    /\ delays[1] = 1999 /\ delays[2] = 2000

(* C2: when the first k-1 fetcher calls are rate-limited and the k-th is ok
   (1 <= k <= maxRetries), the call returns that k-th response after exactly
   k fetcher calls: the wrapper has not given up before the k-th call and
   makes no call after the first ok response. *)
C2_SuccessAfterRateLimits ==
    /\ (rt.pc # "idle" /\ AllRateLimited /\ calls < rt.maxRetries) => ~RetryDone
    /\ \A k \in 1..Len(outcomes) :
          ((\A j \in 1..(k - 1) : RateLimited(outcomes[j])) /\ outcomes[k].ok) =>
              /\ rt.pc = "returned"
              /\ rt.result = outcomes[k]
              /\ calls = k /\ Len(outcomes) = k
              /\ k <= rt.maxRetries

C2_Witness ==
    /\ Len(outcomes) = 3 /\ RateLimited(outcomes[1]) /\ RateLimited(outcomes[2])
    /\ outcomes[3].ok /\ rt.pc = "returned" /\ calls = 3

(* C3: when attempt i, i < maxRetries - 1, ends with a non-ok response that
   is not a 429 or with the fetcher throwing, the call does not fail: it
   waits 2^i * 1000 ms plus a jitter in [0, 1000) ms, and the wait is followed
   by attempt i + 1. *)
C3_OtherFailureBacksOff ==
    /\ [](\A k \in 1..Len(outcomes) :
            (k - 1 < rt.maxRetries - 1 /\ OtherFailure(outcomes[k])) =>
                /\ Len(delays) >= k
                /\ delays[k] >= Pow2(k - 1) * 1000
                /\ delays[k] < Pow2(k - 1) * 1000 + 1000
                /\ (k = Len(outcomes) => \/ (rt.pc = "waiting" /\ rt.i = k - 1)
                                           \/ (rt.pc = "fetching" /\ rt.i = k)))
    /\ [][rt.pc = "waiting" => (rt'.pc = "fetching" /\ rt'.i = rt.i + 1 /\ calls' = rt'.i)]_vars

C3_Witness ==
    /\ Len(outcomes) = 3 /\ outcomes[2].kind = "reject" /\ outcomes[3].status = 500
    /\ rt.pc = "waiting" /\ rt.i = 2 /\ rt.delay = 4999

(* C4: when all maxRetries attempts fail (maxRetries >= 1), the call throws
   one error, and that error carries the outcome of the last attempt: the
   status of the last response or the transport error of the last fetcher
   call, never one of an earlier attempt. *)
C4_ThrowsLastFailure ==
    /\ (rt.pc # "idle" /\ rt.maxRetries >= 1 /\ calls = rt.maxRetries /\ AllFailed) =>
          /\ rt.pc = "thrown"
          /\ rt.error = ErrorOf(outcomes[calls], calls - 1)
    /\ rt.pc = "thrown" =>
          /\ calls = rt.maxRetries /\ AllFailed
          /\ rt.error.attempt = rt.maxRetries - 1
          /\ rt.result = NoValue

C4_Witness ==
    /\ rt.pc = "thrown" /\ rt.maxRetries = 3
    /\ outcomes[1].kind = "reject" /\ outcomes[2].status = 429 /\ outcomes[3].status = 500
    /\ rt.error.of = "status" /\ rt.error.status = 500

\* The fetcher() calls made so far: the settled ones and the one awaited.
CallsMade == calls + (IF rt.pc = "fetching" THEN 1 ELSE 0)

(* C15: for every maxRetries >= 0 and every fetcher, a call of fetchWithRetry
   calls the fetcher at most maxRetries times, one call at a time (a call is
   made only once every earlier one has settled), and ends in one of two
   ways: it returns a response whose ok is true, or it throws; it never ends
   normally without a response. *)
C15_BoundedCallsReturnOkOrThrow ==
    /\ CallsMade <= rt.maxRetries
    /\ Len(outcomes) = calls
    /\ rt.pc = "fetching" => rt.i = calls
    /\ RetryDone =>
          \/ rt.pc = "returned" /\ rt.result.kind = "response" /\ rt.result.ok
          \/ rt.pc = "thrown" /\ rt.error.kind = "error"

(***************************************************************************)
(* updateCountdowns for the weekly events (part_001, lines 95-151)         *)
(*                                                                         *)
(* A Date is its local fields: day counts the days from the Sunday the     *)
(* model's week starts with (getDay() is day mod 7), so setDate(getDate()  *)
(* + n) adds n to it. Local time has no daylight-saving shift here.        *)
(***************************************************************************)

\* The sub-minute parts of the clock the model reads: on the minute and after it.
SecondSamples == {0, 30}
MsSamples == {0, 500}

MsPerSecond == 1000 * 1
MsPerMinute == 1000 * 60
MsPerHour == 1000 * 60 * 60
MsPerDay == 1000 * 60 * 60 * 24

Dates ==
    [day : 0..6, hour : 0..23, minute : 0..59, second : SecondSamples, ms : MsSamples]

\* Date.prototype.getTime(), from the start of the model's week
GetTime(d) ==
    d.day * MsPerDay + d.hour * MsPerHour + d.minute * MsPerMinute
        + d.second * MsPerSecond + d.ms

\* Date.prototype.getDay(): 0 Sunday ... 5 Friday, 6 Saturday
GetDay(d) == d.day % 7

\* d.setDate(d.getDate() + n)
AddDays(d, n) == [d EXCEPT !.day = d.day + n]

\* d.setHours(h, m, s, ms)
SetHours(d, h, m, sec, msec) ==
    [d EXCEPT !.hour = h, !.minute = m, !.second = sec, !.ms = msec]

\* lines 101-107: the days to the next Sunday 10:30
DaysUntilNextSunday(now) ==
    LET currentDay == GetDay(now)
        d == (7 - currentDay) % 7
    IN  IF d = 0 /\ (now.hour > 10 \/ (now.hour = 10 /\ now.minute >= 30))
        THEN 7
        ELSE d

\* lines 100-109
NextWorship(now) == SetHours(AddDays(now, DaysUntilNextSunday(now)), 10, 30, 0, 0)

\* lines 116-122: the days to the next Friday 19:00
DaysUntilNextFriday(now) ==
    LET currentDay == GetDay(now)
        d == (5 - currentDay + 7) % 7
    IN  IF d = 0 /\ (now.hour > 19 \/ (now.hour = 19 /\ now.minute >= 0))
        THEN 7
        ELSE d

\* lines 115-124
NextPrayer(now) == SetHours(AddDays(now, DaysUntilNextFriday(now)), 19, 0, 0, 0)

\* lines 135-151: displayCountdown reads the clock again, lag ms after
\* updateCountdowns did
DisplayCountdown(targetDate, now, lag) ==
    LET distance == GetTime(targetDate) - (GetTime(now) + lag)
    IN  IF distance < 0
        THEN [text |-> "is happening now!", days |-> 0, hours |-> 0, minutes |-> 0, seconds |-> 0]
        ELSE [text |-> "d h m s",
              days |-> distance \div MsPerDay,
              hours |-> (distance % MsPerDay) \div MsPerHour,
              minutes |-> (distance % MsPerHour) \div MsPerMinute,
              seconds |-> (distance % MsPerMinute) \div MsPerSecond]

\* The clock's next reading among the sampled ones; the week starts over after
\* its last one.
NextReading(d) ==
    IF d.ms = 0 THEN [d EXCEPT !.ms = 500]
    ELSE IF d.second = 0 THEN [d EXCEPT !.second = 30, !.ms = 0]
    ELSE IF d.minute < 59 THEN [d EXCEPT !.minute = d.minute + 1, !.second = 0, !.ms = 0]
    ELSE IF d.hour < 23 THEN [d EXCEPT !.hour = d.hour + 1, !.minute = 0, !.second = 0, !.ms = 0]
    ELSE [day |-> (d.day + 1) % 7, hour |-> 0, minute |-> 0, second |-> 0, ms |-> 0]

RetryIdleVars ==
    /\ rt = RetryIdle
    /\ calls = 0
    /\ outcomes = <<>>
    /\ delays = <<>>

RecurInit ==
    /\ rnow \in Dates
    /\ rlast = Unset
    /\ RetryIdleVars
    /\ CardsIdle
    /\ SearchIdle
    /\ DailyIdle

\* lines 95-127: one run of updateCountdowns (page load, then every second)
UpdateCountdownsWeekly ==
    /\ \E lag \in {0, 1} :
          rlast' = [kind |-> "computed", now |-> rnow,
                    nextWorship |-> NextWorship(rnow),
                    nextPrayer |-> NextPrayer(rnow),
                    worshipCountdown |-> DisplayCountdown(NextWorship(rnow), rnow, lag),
                    prayerCountdown |-> DisplayCountdown(NextPrayer(rnow), rnow, lag)]
    /\ UNCHANGED rnow
    /\ UNCHANGED nonRecurVars

\* line 224, setInterval(updateCountdowns, 1000): time passes between two runs
ClockAdvances ==
    /\ rlast # Unset /\ rlast.now = rnow
    /\ rnow' = NextReading(rnow)
    /\ UNCHANGED rlast
    /\ UNCHANGED nonRecurVars

RecurNext == UpdateCountdownsWeekly \/ ClockAdvances

SpecRecurring == RecurInit /\ [][RecurNext]_vars

\* target is on weekday wd at h:m:00.000, and is the earliest such instant
\* that is not before now
IsNextOccurrence(target, now, wd, h, m) ==
    /\ GetDay(target) = wd
    /\ target.hour = h /\ target.minute = m /\ target.second = 0 /\ target.ms = 0
    /\ GetTime(target) >= GetTime(now)
    /\ GetTime(target) - 7 * MsPerDay < GetTime(now)

(* C5: at every instant, the next occurrence updateCountdowns computes for
   Sunday 10:30 and for Friday 19:00 is on that weekday at that time and is
   the earliest such instant at or after now; at Wednesday 10:00 the Friday
   target is 2 days 9 hours ahead, at Friday 19:05 it is 7 days minus 5
   minutes ahead. *)
C5_NextOccurrenceAtOrAfterNow ==
    rlast # Unset =>
        /\ IsNextOccurrence(rlast.nextWorship, rlast.now, 0, 10, 30)
        /\ IsNextOccurrence(rlast.nextPrayer, rlast.now, 5, 19, 0)
        /\ (rlast.now = [day |-> 3, hour |-> 10, minute |-> 0, second |-> 0, ms |-> 0] =>
               GetTime(rlast.nextPrayer) - GetTime(rlast.now) = 2 * MsPerDay + 9 * MsPerHour)
        /\ (rlast.now = [day |-> 5, hour |-> 19, minute |-> 5, second |-> 0, ms |-> 0] =>
               GetTime(rlast.nextPrayer) - GetTime(rlast.now) = 7 * MsPerDay - 5 * MsPerMinute)

(***************************************************************************)
(* updateCountdowns over the dated event cards                             *)
(*   script.js, lines 84-158, and part_000, lines 217-273                  *)
(*                                                                         *)
(* A card is its data-date attribute; the page markup gives every card its *)
(* .countdown element and its h3 title, and the page its banner element.   *)
(* Times are in ms since the epoch. A JavaScript number is the record      *)
(* [nan, v]: NaN, or the integer v.                                        *)
(***************************************************************************)

\* The longest list of cards the model puts on the page.
MaxCards == 3

Num(v) == [nan |-> FALSE, v |-> v]
NaN == [nan |-> TRUE, v |-> 0]

\* a - b, a < b, a <= b, a === b on JavaScript numbers: NaN compares false
NumSub(a, b) == IF a.nan \/ b.nan THEN NaN ELSE Num(a.v - b.v)
NumLt(a, b) == ~a.nan /\ ~b.nan /\ a.v < b.v
NumLe(a, b) == ~a.nan /\ ~b.nan /\ a.v <= b.v
NumEq(a, b) == ~a.nan /\ ~b.nan /\ a.v = b.v

\* Math.ceil(a / b), b > 0
NumCeilDiv(a, b) == IF a.nan THEN NaN ELSE Num(-((-a.v) \div b))

\* The instant the sampled clock readings and event dates lie around.
ModelNow == 1000 * 1000 * 1000

\* new Date(): the readings of the clock, in ms
NowSamples ==
    { ModelNow - 1000, ModelNow, ModelNow + 999, ModelNow + 3 * MsPerHour }

\* the instants the valid data-date attributes name
EventTimes ==
    { ModelNow - 3 * MsPerHour, ModelNow, ModelNow + 999, ModelNow + MsPerDay,
      ModelNow + MsPerDay + MsPerHour + MsPerMinute + 1999 }

\* card.getAttribute("data-date"): null when the attribute is absent, else the
\* string: empty, not a date, or the date of instant t
DateStrs ==
    { [kind |-> "absent", t |-> 0], [kind |-> "empty", t |-> 0],
      [kind |-> "garbage", t |-> 0] }
        \cup { [kind |-> "date", t |-> t] : t \in EventTimes }

\* !dateStr
IsFalsy(dateStr) == dateStr.kind \in {"absent", "empty"}

\* new Date(dateStr).getTime(): new Date(null) is the epoch, an empty or
\* unparsable string gives an Invalid Date, whose time is NaN
DateGetTime(dateStr) ==
    CASE dateStr.kind = "absent" -> Num(0)
      [] dateStr.kind = "date" -> Num(dateStr.t)
      [] OTHER -> NaN

Text(kind) == [kind |-> kind, d |-> 0, h |-> 0, m |-> 0, s |-> 0, n |-> Num(0)]

Shown(text, classes) == [text |-> text, classes |-> classes]

\* what a card shows before any run: the markup's placeholder, no status class
InitialShown == Shown(Text("markup"), {})

Max(a, b) == IF a >= b THEN a ELSE b

Abs(a) == IF a < 0 THEN -a ELSE a

FormatRemainingRounded(ms) ==
    LET totalSeconds == Max(0, (ms.v + 500) \div 1000)
    IN  IF ms.nan THEN Text("Invalid date")
        ELSE [Text("dhms") EXCEPT !.d = totalSeconds \div 86400,
                                  !.h = (totalSeconds % 86400) \div 3600,
                                  !.m = (totalSeconds % 3600) \div 60,
                                  !.s = totalSeconds % 60]

\* script.js lines 84-94: formatRemaining(ms)
FormatRemaining(ms) ==
    LET totalSeconds == Max(0, ms.v \div 1000)
    IN  IF ms.nan THEN Text("Invalid date")
        ELSE [Text("dhms") EXCEPT !.d = totalSeconds \div 86400,
                                  !.h = (totalSeconds % 86400) \div 3600,
                                  !.m = (totalSeconds % 3600) \div 60,
                                  !.s = totalSeconds % 60]

\* script.js line 134: `Starts in ${formatRemaining(diff)}`
StartsIn(diff) == [FormatRemaining(Num(diff)) EXCEPT !.kind = "Starts in"]

SjCardWindowInclusive(dateStr, now, old) ==
    IF IsFalsy(dateStr) THEN Shown(Text("No date set"), old.classes)
    ELSE IF DateGetTime(dateStr).nan THEN Shown(Text("Invalid date format"), old.classes)
    ELSE LET diff == DateGetTime(dateStr).v - now
         IN  IF diff <= 0
             THEN IF Abs(diff) <= 3 * 3600 * 1000
                  THEN Shown(Text("Happening now"), {"today"})
                  ELSE Shown(Text("Event ended"), {"past"})
             ELSE Shown(StartsIn(diff), {})

\* script.js lines 102-135: what one card shows after the callback of forEach
SjCard(dateStr, now, old) ==
    IF IsFalsy(dateStr) THEN Shown(Text("No date set"), old.classes)
    ELSE IF DateGetTime(dateStr).nan THEN Shown(Text("Invalid date format"), old.classes)
    ELSE LET diff == DateGetTime(dateStr).v - now
         IN  IF diff <= 0
             THEN IF Abs(diff) < 3 * 3600 * 1000
                  THEN Shown(Text("Happening now"), {"today"})
                  ELSE Shown(Text("Event ended"), {"past"})
             ELSE Shown(StartsIn(diff), {})

\* script.js lines 106-133: whether the callback pushes the card to upcoming
SjIsUpcoming(dateStr, now) ==
    /\ ~IsFalsy(dateStr)
    /\ ~DateGetTime(dateStr).nan
    /\ DateGetTime(dateStr).v - now > 0

RECURSIVE SjUpcoming(_, _, _)
\* script.js lines 99-136: the upcoming array after the cards from k on
SjUpcoming(cs, now, k) ==
    IF k > Len(cs) THEN <<>>
    ELSE IF SjIsUpcoming(cs[k], now)
    THEN <<[card |-> k, eventDate |-> DateGetTime(cs[k]).v,
            diff |-> DateGetTime(cs[k]).v - now]>> \o SjUpcoming(cs, now, k + 1)
    ELSE SjUpcoming(cs, now, k + 1)

RECURSIVE InsertBeforeEqual(_, _)
InsertBeforeEqual(x, sorted) ==
    IF sorted = <<>> THEN <<x>>
    ELSE IF x.eventDate <= Head(sorted).eventDate THEN <<x>> \o sorted
    ELSE <<Head(sorted)>> \o InsertBeforeEqual(x, Tail(sorted))

RECURSIVE InsertSorted(_, _)
\* x put after the entries that do not compare greater: a stable insertion
InsertSorted(x, sorted) ==
    IF sorted = <<>> THEN <<x>>
    ELSE IF x.eventDate < Head(sorted).eventDate THEN <<x>> \o sorted
    ELSE <<Head(sorted)>> \o InsertSorted(x, Tail(sorted))

RECURSIVE SortByEventDate(_)
\* script.js line 143: upcoming.sort((a, b) => a.eventDate - b.eventDate);
\* Array.prototype.sort is stable
SortByEventDate(up) ==
    IF up = <<>> THEN <<>>
    ELSE InsertSorted(up[Len(up)], SortByEventDate(SubSeq(up, 1, Len(up) - 1)))

NoBanner == [kind |-> "markup", card |-> 0, eventDate |-> 0, remaining |-> Text("none")]

\* script.js lines 138-157
SjBanner(cs, now) ==
    LET upcoming == SjUpcoming(cs, now, 1)
        next == SortByEventDate(upcoming)[1]
    IN  IF Len(upcoming) = 0
        THEN [NoBanner EXCEPT !.kind = "No upcoming events."]
        ELSE [kind |-> "next", card |-> next.card, eventDate |-> next.eventDate,
              remaining |-> StartsIn(next.diff)]

\* script.js lines 96-158: the page after one run of updateCountdowns
SjUpdate(cs, now, old) ==
    [at |-> now,
     shown |-> [k \in 1..Len(cs) |-> SjCard(cs[k], now, old.shown[k])],
     banner |-> SjBanner(cs, now)]

\* part_000 lines 225-249: what one card shows after the callback of forEach
P0Card(dateStr, now) ==
    LET timeDiff == NumSub(DateGetTime(dateStr), Num(now))
        daysDiff == NumCeilDiv(timeDiff, MsPerDay)
    IN  IF NumLe(timeDiff, Num(0))
        THEN Shown(Text("Event Concluded"), {"past"})
        ELSE IF NumEq(daysDiff, Num(0))
        THEN Shown(Text("Happening TODAY!"), {"today"})
        ELSE IF NumEq(daysDiff, Num(1))
        THEN Shown(Text("Tomorrow!"), {})
        ELSE Shown([Text("in N days") EXCEPT !.n = daysDiff], {})

NoNextEvent == [card |-> 0, eventDate |-> 0, days |-> Num(0), timeDiff |-> Num(0), set |-> FALSE]

\* part_000 lines 234, 251-259: nextEvent and nextEventTimeDiff after card k;
\* acc.set is false while nextEvent is null and nextEventTimeDiff is Infinity
P0Track(dateStr, now, k, acc) ==
    LET timeDiff == NumSub(DateGetTime(dateStr), Num(now))
    IN  IF ~NumLe(timeDiff, Num(0)) /\ ((~acc.set /\ ~timeDiff.nan) \/ NumLt(timeDiff, acc.timeDiff))
        THEN [card |-> k, eventDate |-> DateGetTime(dateStr).v,
              days |-> NumCeilDiv(timeDiff, MsPerDay), timeDiff |-> timeDiff, set |-> TRUE]
        ELSE acc

RECURSIVE P0Scan(_, _, _)
\* part_000 lines 224-261: nextEvent after the first k cards
P0Scan(cs, now, k) ==
    IF k = 0 THEN NoNextEvent ELSE P0Track(cs[k], now, k, P0Scan(cs, now, k - 1))

\* part_000 lines 264-272
P0Banner(cs, now) ==
    LET nextEvent == P0Scan(cs, now, Len(cs))
    IN  IF nextEvent.set
        THEN [kind |-> "Next Event", card |-> nextEvent.card, eventDate |-> nextEvent.eventDate,
              remaining |-> IF NumLt(Num(0), nextEvent.days)
                            THEN [Text("in N days") EXCEPT !.n = nextEvent.days]
                            ELSE Text("TODAY")]
        ELSE [NoBanner EXCEPT !.kind = "No upcoming events scheduled."]

\* part_000 lines 217-273: the page after one run of updateCountdowns
P0Update(cs, now) ==
    [at |-> now,
     shown |-> [k \in 1..Len(cs) |-> P0Card(cs[k], now)],
     banner |-> P0Banner(cs, now)]

CardLists == UNION { [1..n -> DateStrs] : n \in 0..MaxCards }

\* the page as the markup gives it
InitialPage(cs) == [at |-> -1, shown |-> [k \in 1..Len(cs) |-> InitialShown], banner |-> NoBanner]

CardsInit ==
    /\ cards \in CardLists
    /\ cnow \in NowSamples
    /\ sj = InitialPage(cards)
    /\ p0 = InitialPage(cards)
    /\ RetryIdleVars
    /\ RecurIdle
    /\ SearchIdle
    /\ DailyIdle

\* script.js lines 221-222: updateCountdowns on load and every second
SjTick ==
    /\ sj.at # cnow
    /\ sj' = SjUpdate(cards, cnow, sj)
    /\ UNCHANGED <<cards, cnow, p0>>
    /\ UNCHANGED nonCardVars

\* part_000 lines 306-307: updateCountdowns on load and every 6 hours
P0Tick ==
    /\ p0.at # cnow
    /\ p0' = P0Update(cards, cnow)
    /\ UNCHANGED <<cards, cnow, sj>>
    /\ UNCHANGED nonCardVars

\* time passes between two runs: the clock's next sampled reading
CardsClock ==
    /\ sj.at = cnow /\ p0.at = cnow
    /\ \E n \in NowSamples :
          /\ n > cnow
          /\ \A n2 \in NowSamples : n2 > cnow => n <= n2
          /\ cnow' = n
    /\ UNCHANGED <<cards, sj, p0>>
    /\ UNCHANGED nonCardVars

CardsNext == SjTick \/ P0Tick \/ CardsClock

SpecCards == CardsInit /\ [][CardsNext]_vars

\* the cards with a valid date strictly after the instant at
Positive(at) == { k \in 1..Len(cards) : cards[k].kind = "date" /\ cards[k].t > at }

\* among them, the one with the least remaining time, the first listed of equals
NearestFirstListed(at) ==
    CHOOSE k \in Positive(at) :
        \A j \in Positive(at) :
            cards[k].t < cards[j].t \/ (cards[k].t = cards[j].t /\ k <= j)

\* the banner of a page names the nearest upcoming card, or says there is none
BannerNamesNearest(pg, noneText, nextText) ==
    IF Positive(pg.at) = {}
    THEN pg.banner.kind = noneText
    ELSE pg.banner.kind = nextText /\ pg.banner.card = NearestFirstListed(pg.at)

(* C6: after a run of updateCountdowns the banner names the card with the
   smallest strictly positive eventDate - now, the first listed one of two
   cards with equal remaining time, and shows the 'no upcoming events'
   phrase when the list is empty or no card has a positive remaining time
   (script.js and part_000). *)
C6_BannerNamesNearestUpcoming ==
    /\ sj.at # -1 => BannerNamesNearest(sj, "No upcoming events.", "next")
    /\ p0.at # -1 => BannerNamesNearest(p0, "No upcoming events scheduled.", "Next Event")

C6_Witness ==
    /\ Len(cards) = 3 /\ sj.at = ModelNow /\ p0.at = ModelNow
    /\ cards[1] = [kind |-> "date", t |-> ModelNow + MsPerDay]
    /\ cards[2] = [kind |-> "date", t |-> ModelNow + 999]
    /\ cards[3] = [kind |-> "date", t |-> ModelNow + 999]
    /\ sj.banner.card = 2 /\ p0.banner.card = 2

(* C7: in script.js every card whose valid eventDate is strictly after now
   carries neither 'past' nor 'today' and shows 'Starts in {d}d {h}h {m}m
   {s}s' with d*86400 + h*3600 + m*60 + s = floor((eventDate - now) / 1000),
   0 <= h < 24, 0 <= m < 60, 0 <= s < 60. *)
C7_UpcomingCountdownFloors ==
    sj.at # -1 =>
        \A k \in Positive(sj.at) :
            LET text == sj.shown[k].text
            IN  /\ sj.shown[k].classes = {}
                /\ text.kind = "Starts in"
                /\ text.d * 86400 + text.h * 3600 + text.m * 60 + text.s
                       = (cards[k].t - sj.at) \div 1000
                /\ text.d >= 0
                /\ text.h \in 0..23 /\ text.m \in 0..59 /\ text.s \in 0..59

C7_Witness ==
    /\ Len(cards) = 2 /\ sj.at = ModelNow
    /\ cards[1].t = ModelNow + MsPerDay + MsPerHour + MsPerMinute + 1999
    /\ sj.shown[1].text = [Text("Starts in") EXCEPT !.d = 1, !.h = 1, !.m = 1, !.s = 1]
    /\ cards[2].t = ModelNow + 999
    /\ sj.shown[2].text = Text("Starts in")

\* the texts a card with an upcoming, imminent or concluded event shows, and the
\* markup's own
StatusTexts ==
    { "Starts in", "Happening now", "Event ended",
      "Event Concluded", "Happening TODAY!", "Tomorrow!", "in N days", "markup" }

\* a card whose data-date is missing or is no valid date
InvalidCards == { k \in 1..Len(cards) : cards[k].kind # "date" }

(* C8: after a run of updateCountdowns (script.js and part_000) a card whose
   data-date is missing or is no valid date shows a text of its own, none of
   the upcoming, imminent or concluded texts, is never the card of the
   banner, and every other card has its status and the banner is computed
   from the other cards. *)
C8_InvalidDateDegradesOneCard ==
    /\ sj.at # -1 =>
          /\ \A k \in InvalidCards :
                sj.shown[k].text.kind \notin StatusTexts /\ sj.banner.card # k
          /\ \A k \in (1..Len(cards)) \ InvalidCards :
                sj.shown[k] = SjCard(cards[k], sj.at, InitialShown)
          /\ BannerNamesNearest(sj, "No upcoming events.", "next")
    /\ p0.at # -1 =>
          /\ \A k \in InvalidCards :
                p0.shown[k].text.kind \notin StatusTexts /\ p0.banner.card # k
          /\ \A k \in (1..Len(cards)) \ InvalidCards :
                p0.shown[k] = P0Card(cards[k], p0.at)
          /\ BannerNamesNearest(p0, "No upcoming events scheduled.", "Next Event")

\* the cards with a valid date
ValidCards == { k \in 1..Len(cards) : cards[k].kind = "date" }

\* the statuses of script.js: what a card shows and the class it carries
SjUpcomingStatus(shown) == shown.text.kind = "Starts in" /\ shown.classes = {}
SjImminentStatus(shown) == shown.text = Text("Happening now") /\ shown.classes = {"today"}
SjConcludedStatus(shown) == shown.text = Text("Event ended") /\ shown.classes = {"past"}

\* upcoming, imminent, concluded in their order; the markup's placeholder first
SjStatusRank(shown) ==
    CASE shown.text.kind = "Starts in" -> 1
      [] shown.text.kind = "Happening now" -> 2
      [] shown.text.kind = "Event ended" -> 3
      [] OTHER -> 0

(* C12: after every run of script.js's updateCountdowns each card with a
   valid date carries exactly one status: upcoming ('Starts in ...', no
   class) iff eventDate > now, imminent ('Happening now', class 'today') iff
   eventDate <= now and now - eventDate < 3 hours, concluded ('Event ended',
   class 'past') iff now - eventDate >= 3 hours; no card carries both 'past'
   and 'today'; and from one run to the next, the clock advancing, a card's
   status stays or moves on in the order upcoming, imminent, concluded. *)
C12_OneStatusMovingForward ==
    /\ [](sj.at # -1 =>
            \A k \in ValidCards :
                /\ SjUpcomingStatus(sj.shown[k]) <=> cards[k].t > sj.at
                /\ SjImminentStatus(sj.shown[k]) <=>
                       (cards[k].t <= sj.at /\ sj.at - cards[k].t < 3 * MsPerHour)
                /\ SjConcludedStatus(sj.shown[k]) <=> sj.at - cards[k].t >= 3 * MsPerHour
                /\ \/ SjUpcomingStatus(sj.shown[k])
                   \/ SjImminentStatus(sj.shown[k])
                   \/ SjConcludedStatus(sj.shown[k])
                /\ ~({"past", "today"} \subseteq sj.shown[k].classes))
    /\ [][\A k \in ValidCards :
              /\ SjStatusRank(sj'.shown[k]) >= SjStatusRank(sj.shown[k])
              /\ sj'.at >= sj.at]_vars

C12_Witness ==
    /\ Len(cards) = 3 /\ sj.at = ModelNow + 3 * MsPerHour
    /\ cards[1].kind = "date" /\ cards[1].t = ModelNow
    /\ SjConcludedStatus(sj.shown[1])
    /\ cards[2].kind = "date" /\ cards[2].t = ModelNow + 999
    /\ SjImminentStatus(sj.shown[2])
    /\ cards[3].kind = "date" /\ cards[3].t = ModelNow + MsPerDay
    /\ SjUpcomingStatus(sj.shown[3])

\* the day difference of a card with a valid date at the instant at: the
\* remaining time in days, rounded up
DayDifference(k, at) == -((-(cards[k].t - at)) \div MsPerDay)

(* C13: after a run of part_000's updateCountdowns a card whose event starts
   strictly in the future and less than 24 hours ahead shows 'Happening
   TODAY!' with the class 'today', and the banner, when it names that card,
   says 'TODAY'; a card shows 'Tomorrow!' only when its day difference is 1,
   and every other future card shows 'in N days' with its day difference. *)
C13_FutureSameDayShownToday ==
    p0.at # -1 =>
        \A k \in Positive(p0.at) :
            /\ cards[k].t - p0.at < MsPerDay =>
                  /\ p0.shown[k] = Shown(Text("Happening TODAY!"), {"today"})
                  /\ p0.banner.card = k => p0.banner.remaining = Text("TODAY")
            /\ p0.shown[k].text.kind = "Tomorrow!" => DayDifference(k, p0.at) = 1
            /\ (cards[k].t - p0.at >= MsPerDay /\ DayDifference(k, p0.at) # 1) =>
                  p0.shown[k] = Shown([Text("in N days") EXCEPT
                                          !.n = Num(DayDifference(k, p0.at))], {})

(***************************************************************************)
(* The verse search: isValidReference and searchBible (script.js, lines    *)
(* 4-7 and 163-231), searchBibleVerse and setupVerseFinder (part_000,      *)
(* lines 116-190)                                                          *)
(*                                                                         *)
(* A string is the sequence of its characters.                             *)
(***************************************************************************)

\* The most runs of the search handler in one behaviour.
MaxSearches == 2

UpperCase ==
    <<"A", "B", "C", "D", "E", "F", "G", "H", "I", "J", "K", "L", "M",
      "N", "O", "P", "Q", "R", "S", "T", "U", "V", "W", "X", "Y", "Z">>

LowerCase ==
    <<"a", "b", "c", "d", "e", "f", "g", "h", "i", "j", "k", "l", "m",
      "n", "o", "p", "q", "r", "s", "t", "u", "v", "w", "x", "y", "z">>

Range(f) == { f[x] : x \in DOMAIN f }

\* [A-Za-z], \d, \s, \w
IsLetter(c) == c \in Range(UpperCase) \cup Range(LowerCase)
IsDigit(c) == c \in {"0", "1", "2", "3", "4", "5", "6", "7", "8", "9"}
IsSpace(c) == c \in {" ", "\t", "\n"}
IsWordChar(c) == IsLetter(c) \/ IsDigit(c) \/ c = "_"

\* the lower-case form of a character (the i flag of a regular expression)
ToLower(c) ==
    IF c \in Range(UpperCase)
    THEN LowerCase[CHOOSE i \in DOMAIN UpperCase : UpperCase[i] = c]
    ELSE c

RECURSIVE TrimStart(_)
TrimStart(str) ==
    IF str # <<>> /\ IsSpace(Head(str)) THEN TrimStart(Tail(str)) ELSE str

RECURSIVE TrimEnd(_)
TrimEnd(str) ==
    IF str # <<>> /\ IsSpace(str[Len(str)])
    THEN TrimEnd(SubSeq(str, 1, Len(str) - 1))
    ELSE str

\* String.prototype.trim
Trim(str) == TrimEnd(TrimStart(str))

\* /^[1-3]?\s?[A-Za-z ]+\s\d{1,3}:\d{1,3}$/.test(str): some split of str into
\* the parts of the pattern
MatchesReference(str) ==
    \E a \in 0..1, b \in 0..1, n \in 1..Len(str), d1 \in 1..3, d2 \in 1..3 :
        /\ a + b + n + 1 + d1 + 1 + d2 = Len(str)
        /\ a = 1 => str[1] \in {"1", "2", "3"}
        /\ b = 1 => IsSpace(str[a + 1])
        /\ \A j \in (a + b + 1)..(a + b + n) : IsLetter(str[j]) \/ str[j] = " "
        /\ IsSpace(str[a + b + n + 1])
        /\ \A j \in (a + b + n + 2)..(a + b + n + 1 + d1) : IsDigit(str[j])
        /\ str[a + b + n + d1 + 2] = ":"
        /\ \A j \in (a + b + n + d1 + 3)..Len(str) : IsDigit(str[j])

\* script.js lines 4-7: isValidReference(reference)
IsValidReference(reference) == MatchesReference(Trim(reference))

\* script.js lines 177-183: corrections, in the order of its keys
Corrections ==
    << <<<<"j", "h", "o", "n">>, <<"J", "o", "h", "n">>>>,
       <<<<"p", "s", "a", "l", "m", "s">>, <<"P", "s", "a", "l", "m">>>>,
       <<<<"g", "e", "n", "i", "s", "i", "s">>, <<"G", "e", "n", "e", "s", "i", "s">>>>,
       <<<<"e", "x", "u", "d", "o", "s">>, <<"E", "x", "o", "d", "u", "s">>>>,
       <<<<"r", "o", "m", "m", "a", "n", "s">>, <<"R", "o", "m", "a", "n", "s">>>> >>

\* whether the word wrong stands at position i of str, between two \b, whatever
\* the case of its letters
WordAt(str, i, wrong) ==
    /\ i + Len(wrong) - 1 <= Len(str)
    /\ \A j \in 1..Len(wrong) : ToLower(str[i + j - 1]) = wrong[j]
    /\ i = 1 \/ ~IsWordChar(str[i - 1])
    /\ i + Len(wrong) > Len(str) \/ ~IsWordChar(str[i + Len(wrong)])

RECURSIVE ReplaceFrom(_, _, _, _)
\* str.replace(new RegExp(`\\b${wrong}\\b`, "gi"), right), from position i on
ReplaceFrom(str, i, wrong, right) ==
    IF i > Len(str) THEN <<>>
    ELSE IF WordAt(str, i, wrong)
    THEN right \o ReplaceFrom(str, i + Len(wrong), wrong, right)
    ELSE <<str[i]>> \o ReplaceFrom(str, i + 1, wrong, right)

RECURSIVE CorrectFrom(_, _)
\* script.js lines 184-188: the corrections from the k-th on, applied in turn
CorrectFrom(str, k) ==
    IF k > Len(Corrections) THEN str
    ELSE CorrectFrom(ReplaceFrom(str, 1, Corrections[k][1], Corrections[k][2]), k + 1)

\* script.js lines 184-188: correctedQuery
CorrectedQuery(rawQuery) == CorrectFrom(rawQuery, 1)

RECURSIVE EncodeURIComponent(_)
\* encodeURIComponent: letters and digits stand for themselves, a space and a
\* colon are percent-encoded
EncodeURIComponent(str) ==
    IF str = <<>> THEN <<>>
    ELSE (CASE Head(str) = " " -> <<"%", "2", "0">>
            [] Head(str) = ":" -> <<"%", "3", "A">>
            [] OTHER -> <<Head(str)>>) \o EncodeURIComponent(Tail(str))

\* document.getElementById("bibleSearch").value: what the user may have typed
Queries ==
    { <<>>,
      <<" ">>,
      <<"J", "o", "h", "n", " ", "3", ":", "1", "6">>,
      <<" ", "1", " ", "J", "o", "h", "n", " ", "4", ":", "8", " ">>,
      <<"J", "o", "h", "n", "n", " ", "3">>,
      <<"j", "h", "o", "n", " ", "3", ":", "1", "6">> }

\* how fetch() of script.js settles: a rejection, or a Response with ok or not
FetchResults == {"reject", "not ok", "ok"}

\* how response.json() settles: a rejection (the body is no JSON), or the data
\* with or without the text the handler looks for
JsonResults == {"reject", "no text", "text"}

\* One run of the search handler. raw is the trimmed input, url what fetch is
\* called with, fetched whether the run started a request, pc where its promise
\* chain stands ("fetch", "retry", "json" or "done"), st the locals of its
\* fetchWithRetry call, outcome what the run ended with.
Run(raw, url, fetched, pc, st, outcome) ==
    [raw |-> raw, url |-> url, fetched |-> fetched, pc |-> pc, st |-> st, outcome |-> outcome]

\* script.js lines 205-208: the catch callback of run k
SbCatch(d, k, message) ==
    [d EXCEPT !.errorContent = Content("message", k, message), !.errorDisplay = "block"]

\* script.js lines 196-200: the verse is shown
SbShow(d, k) ==
    [d EXCEPT !.resultContent = Content("verse", k, "data.reference, data.text"),
              !.resultDisplay = "block"]

\* script.js lines 163-190: searchBible() up to the call of fetch
SearchBible ==
    /\ page = "script.js"
    /\ Len(reqs) < MaxSearches
    /\ \E value \in Queries :
          LET rawQuery == Trim(value)
              k == Len(reqs) + 1
              hidden == [dom EXCEPT !.resultDisplay = "none", !.errorDisplay = "none"]
          IN  IF rawQuery = <<>>
              THEN /\ dom' = SbCatch(hidden, k, "Please enter a verse reference (e.g., John 3:16).")
                   /\ reqs' = Append(reqs, Run(rawQuery, <<>>, FALSE, "done", RetryIdle, "error"))
              ELSE /\ dom' = hidden
                   /\ reqs' = Append(reqs,
                          Run(rawQuery, EncodeURIComponent(CorrectedQuery(rawQuery)),
                              TRUE, "fetch", RetryIdle, "pending"))
    /\ UNCHANGED page
    /\ UNCHANGED nonSearchVars

\* script.js lines 190-194 and 205-208: fetch settles
SbFetchSettles ==
    /\ page = "script.js"
    /\ \E k \in 1..Len(reqs), res \in FetchResults :
          /\ reqs[k].pc = "fetch"
          /\ CASE res = "ok" ->
                    /\ reqs' = [reqs EXCEPT ![k].pc = "json"]
                    /\ dom' = dom
               [] res = "not ok" ->
                    /\ reqs' = [reqs EXCEPT ![k].pc = "done", ![k].outcome = "error"]
                    /\ dom' = SbCatch(dom, k, "Verse not found or invalid reference.")
               [] res = "reject" ->
                    /\ reqs' = [reqs EXCEPT ![k].pc = "done", ![k].outcome = "error"]
                    /\ dom' = SbCatch(dom, k, "Failed to fetch")
    /\ UNCHANGED page
    /\ UNCHANGED nonSearchVars

\* script.js lines 193-208: res.json() settles
SbJsonSettles ==
    /\ page = "script.js"
    /\ \E k \in 1..Len(reqs), body \in JsonResults :
          /\ reqs[k].pc = "json"
          /\ CASE body = "text" ->
                    /\ reqs' = [reqs EXCEPT ![k].pc = "done", ![k].outcome = "verse"]
                    /\ dom' = SbShow(dom, k)
               [] body = "no text" ->
                    /\ reqs' = [reqs EXCEPT ![k].pc = "done", ![k].outcome = "error"]
                    /\ dom' = SbCatch(dom, k, "Could not retrieve verse text.")
               [] body = "reject" ->
                    /\ reqs' = [reqs EXCEPT ![k].pc = "done", ![k].outcome = "error"]
                    /\ dom' = SbCatch(dom, k, "Unexpected token")
    /\ UNCHANGED page
    /\ UNCHANGED nonSearchVars

\* part_000 lines 158-163: the catch block of searchBibleVerse, run k
SvCatch(d, k) ==
    [d EXCEPT !.loadingDisplay = "none",
              !.errorContent = Content("message", k, "Error: Please check the passage (${passage}) or connection."),
              !.errorDisplay = "block"]

\* part_000 lines 148-153: the verse is shown
SvShow(d, k) ==
    [d EXCEPT !.loadingDisplay = "none",
              !.resultContent = Content("verse", k, "passage: text")]

\* part_000 lines 173-181: handleSearch, and searchBibleVerse (lines 116-145)
\* up to the first call of fetcher()
HandleSearch ==
    /\ page = "part_000"
    /\ Len(reqs) < MaxSearches
    /\ \E value \in Queries :
          LET passage == Trim(value)
              k == Len(reqs) + 1
          IN  IF passage # <<>>
              THEN /\ dom' = [dom EXCEPT !.resultContent = Content("empty", k, ""),
                                         !.errorDisplay = "none",
                                         !.loadingDisplay = "block"]
                   /\ reqs' = Append(reqs,
                          Run(passage, passage, TRUE, "retry", StartRetry(MAX_RETRIES), "pending"))
              ELSE /\ dom' = [dom EXCEPT
                                 !.errorContent = Content("message", k, "Please enter a passage (e.g., John 3:16)."),
                                 !.errorDisplay = "block",
                                 !.resultContent = Content("empty", k, "")]
                   /\ reqs' = Append(reqs, Run(passage, <<>>, FALSE, "done", RetryIdle, "error"))
    /\ UNCHANGED page
    /\ UNCHANGED nonSearchVars

\* part_000 lines 145 and 158-163: a fetcher() call of fetchWithRetry settles
SvFetcherSettles ==
    /\ page = "part_000"
    /\ \E k \in 1..Len(reqs), res \in FetcherResults(0), jitter \in JitterSamples :
          LET st == AfterFetch(reqs[k].st, res, jitter)
          IN  /\ reqs[k].pc = "retry"
              /\ reqs[k].st.pc = "fetching"
              /\ CASE st.pc = "returned" ->
                        /\ reqs' = [reqs EXCEPT ![k].st = st, ![k].pc = "json"]
                        /\ dom' = dom
                   [] st.pc = "thrown" ->
                        /\ reqs' = [reqs EXCEPT ![k].st = st, ![k].pc = "done",
                                                ![k].outcome = "error"]
                        /\ dom' = SvCatch(dom, k)
                   [] OTHER ->
                        /\ reqs' = [reqs EXCEPT ![k].st = st]
                        /\ dom' = dom
    /\ UNCHANGED page
    /\ UNCHANGED nonSearchVars

\* part_000 lines 36 and 49: the wait of fetchWithRetry ends, fetcher() is called again
SvTimerFires ==
    /\ page = "part_000"
    /\ \E k \in 1..Len(reqs) :
          /\ reqs[k].pc = "retry"
          /\ reqs[k].st.pc = "waiting"
          /\ reqs' = [reqs EXCEPT ![k].st = AfterWait(reqs[k].st)]
    /\ UNCHANGED <<page, dom>>
    /\ UNCHANGED nonSearchVars

\* part_000 lines 146-163: response.json() settles
SvJsonSettles ==
    /\ page = "part_000"
    /\ \E k \in 1..Len(reqs), body \in JsonResults :
          /\ reqs[k].pc = "json"
          /\ IF body = "text"
             THEN /\ reqs' = [reqs EXCEPT ![k].pc = "done", ![k].outcome = "verse"]
                  /\ dom' = SvShow(dom, k)
             ELSE /\ reqs' = [reqs EXCEPT ![k].pc = "done", ![k].outcome = "error"]
                  /\ dom' = SvCatch(dom, k)
    /\ UNCHANGED page
    /\ UNCHANGED nonSearchVars

SearchInit ==
    /\ page \in {"script.js", "part_000"}
    /\ reqs = <<>>
    /\ dom = InitialDom
    /\ RetryIdleVars
    /\ RecurIdle
    /\ CardsIdle
    /\ DailyIdle

SearchNext ==
    \/ SearchBible \/ SbFetchSettles \/ SbJsonSettles
    \/ HandleSearch \/ SvFetcherSettles \/ SvTimerFires \/ SvJsonSettles

SpecSearch == SearchInit /\ [][SearchNext]_vars

\* the runs of the handler whose request has not reached its success or failure
InFlight == { k \in 1..Len(reqs) : reqs[k].fetched /\ reqs[k].pc # "done" }

(* C9: searchBible starts no request for a query that fails the reference
   validation: a run whose non-empty query does not match the pattern of
   isValidReference ends with the error message shown and no fetch, like a
   run with the empty query. *)
C9_InvalidReferenceNotFetched ==
    page = "script.js" =>
        \A k \in 1..Len(reqs) :
            ~IsValidReference(reqs[k].raw) =>
                /\ ~reqs[k].fetched
                /\ reqs[k].pc = "done" /\ reqs[k].outcome = "error"

(* C10: at most one search request sequence is in flight at any time: a run
   of searchBible / searchBibleVerse never starts its request while the
   request of an earlier run has not reached its success or failure. *)
C10_OneSearchInFlight == Cardinality(InFlight) <= 1

\* the result panel shows a verse: script.js hides and shows the element,
\* part_000 empties and fills it
ResultShowing ==
    /\ dom.resultContent.kind = "verse"
    /\ page = "script.js" => dom.resultDisplay = "block"

\* the error panel shows a message
ErrorShowing == dom.errorContent.kind = "message" /\ dom.errorDisplay = "block"

\* every run of the handler has ended
AllSearchesDone == \A k \in 1..Len(reqs) : reqs[k].pc = "done"

(* C14: under any interleaving of two or more verse searches and their
   responses (searchBible in script.js, searchBibleVerse in part_000) the
   result panel and the error panel never both show content, and once every
   request has finished the page shows the outcome of the search issued
   last: its verse in the result panel, or its message in the error
   panel. *)
C14_LastSearchWins ==
    /\ ~(ResultShowing /\ ErrorShowing)
    /\ (Len(reqs) >= 1 /\ AllSearchesDone) =>
          IF reqs[Len(reqs)].outcome = "verse"
          THEN ResultShowing /\ dom.resultContent.of = Len(reqs)
          ELSE ErrorShowing /\ dom.errorContent.of = Len(reqs)

(***************************************************************************)
(* The daily verse: loadDailyVerse (script.js, lines 21-34) and            *)
(* fetchDailyDevotion (part_000, lines 60-110), each called once by the    *)
(* page's load handler                                                     *)
(***************************************************************************)

\* how res.json() of loadDailyVerse settles: a rejection (the body is no
\* JSON), or the data: without verse, with verse but without details, with
\* details but without text or without reference, or complete
VerseBodies == {"reject", "no verse", "no details", "no text", "no reference", "complete"}

\* how response.json() of fetchDailyDevotion settles: a rejection, or the
\* result: without the candidate's text, with a text that is no JSON, with a
\* devotion object without verse or without reference, or complete
DevotionBodies == {"reject", "no text", "not json", "no verse", "no reference", "complete"}

\* script.js lines 29-33: the catch callback of loadDailyVerse
DefaultVerse ==
    [verse |-> "The Lord is my shepherd; I shall not want.", reference |-> "Psalm 23:1"]

\* script.js lines 24-28: the callback that takes the data; reading details of
\* a missing verse, or text of missing details, throws before anything is
\* written, and a missing property is written as the string of undefined
LdvShow(body) ==
    CASE body \in {"no verse", "no details"} -> DefaultVerse
      [] body = "no text" ->
            [verse |-> "undefined", reference |-> "verseObj.reference"]
      [] body = "no reference" ->
            [verse |-> "verseObj.text", reference |-> "undefined"]
      [] OTHER -> [verse |-> "verseObj.text", reference |-> "verseObj.reference"]

\* script.js lines 216 and 22: loadDailyVerse() calls fetch
LoadDailyVerse ==
    /\ page = "script.js"
    /\ dv.pc = "idle"
    /\ dv' = [dv EXCEPT !.pc = "fetch"]
    /\ UNCHANGED <<vdom, page>>
    /\ UNCHANGED nonDailyVars

\* script.js lines 22-23 and 29-33: fetch settles; res.json() is called on
\* every response, res.ok is not looked at
LdvFetchSettles ==
    /\ page = "script.js"
    /\ dv.pc = "fetch"
    /\ \E res \in FetchResults :
          CASE res = "reject" ->
                  /\ dv' = [dv EXCEPT !.pc = "done", !.failure = "transport"]
                  /\ vdom' = DefaultVerse
            [] res = "not ok" ->
                  /\ dv' = [dv EXCEPT !.pc = "json", !.failure = "not ok"]
                  /\ vdom' = vdom
            [] res = "ok" ->
                  /\ dv' = [dv EXCEPT !.pc = "json"]
                  /\ vdom' = vdom
    /\ UNCHANGED page
    /\ UNCHANGED nonDailyVars

\* script.js lines 23-33: res.json() settles
LdvJsonSettles ==
    /\ page = "script.js"
    /\ dv.pc = "json"
    /\ \E body \in VerseBodies :
          /\ dv' = [dv EXCEPT !.pc = "done",
                              !.failure = IF dv.failure # "none" THEN dv.failure
                                          ELSE IF body = "reject" THEN "not json"
                                          ELSE IF body = "complete" THEN "none"
                                          ELSE "missing field"]
          /\ vdom' = IF body = "reject" THEN DefaultVerse ELSE LdvShow(body)
    /\ UNCHANGED page
    /\ UNCHANGED nonDailyVars

\* part_000 lines 105-109: the catch block of fetchDailyDevotion
DevotionFallback ==
    [verse |-> "Oops! We couldn't load today's devotion.",
     reference |-> "Please check your connection."]

\* part_000 lines 94-103: what follows response.json()
FddShow(body) ==
    CASE body \in {"no text", "not json"} -> DevotionFallback
      [] body = "no verse" ->
            [verse |-> "Error: Could not retrieve verse.", reference |-> "devotion.reference"]
      [] body = "no reference" ->
            [verse |-> "devotion.verse", reference |-> ""]
      [] OTHER -> [verse |-> "devotion.verse", reference |-> "devotion.reference"]

\* part_000 lines 300 and 60-92: fetchDailyDevotion() up to the first call of
\* fetcher()
FetchDailyDevotion ==
    /\ page = "part_000"
    /\ dv.pc = "idle"
    /\ dv' = [dv EXCEPT !.pc = "retry", !.st = StartRetry(MAX_RETRIES)]
    /\ UNCHANGED <<vdom, page>>
    /\ UNCHANGED nonDailyVars

\* part_000 lines 92 and 105-109: a fetcher() call of fetchWithRetry settles
FddFetcherSettles ==
    /\ page = "part_000"
    /\ dv.pc = "retry"
    /\ dv.st.pc = "fetching"
    /\ \E res \in FetcherResults(0), jitter \in JitterSamples :
          LET st == AfterFetch(dv.st, res, jitter)
          IN  CASE st.pc = "returned" ->
                      /\ dv' = [dv EXCEPT !.st = st, !.pc = "json"]
                      /\ vdom' = vdom
                [] st.pc = "thrown" ->
                      /\ dv' = [dv EXCEPT !.st = st, !.pc = "done", !.failure = "exhausted"]
                      /\ vdom' = DevotionFallback
                [] OTHER ->
                      /\ dv' = [dv EXCEPT !.st = st]
                      /\ vdom' = vdom
    /\ UNCHANGED page
    /\ UNCHANGED nonDailyVars

\* part_000 lines 36 and 49: the wait of fetchWithRetry ends, fetcher() is called again
FddTimerFires ==
    /\ page = "part_000"
    /\ dv.pc = "retry"
    /\ dv.st.pc = "waiting"
    /\ dv' = [dv EXCEPT !.st = AfterWait(dv.st)]
    /\ UNCHANGED <<vdom, page>>
    /\ UNCHANGED nonDailyVars

\* part_000 lines 93-109: response.json() settles
FddJsonSettles ==
    /\ page = "part_000"
    /\ dv.pc = "json"
    /\ \E body \in DevotionBodies :
          /\ dv' = [dv EXCEPT !.pc = "done",
                              !.failure = IF body \in {"reject", "not json"} THEN "not json"
                                          ELSE IF body = "complete" THEN "none"
                                          ELSE "missing field"]
          /\ vdom' = IF body = "reject" THEN DevotionFallback ELSE FddShow(body)
    /\ UNCHANGED page
    /\ UNCHANGED nonDailyVars

DailyNext ==
    \/ LoadDailyVerse \/ LdvFetchSettles \/ LdvJsonSettles
    \/ FetchDailyDevotion \/ FddFetcherSettles \/ FddTimerFires \/ FddJsonSettles

\* The most searches in one behaviour of the page with its daily verse.
MaxRemoteSearches == 1

\* a click on the search button of the page, script.js or part_000
RemoteSearchBible == Len(reqs) < MaxRemoteSearches /\ SearchBible

RemoteHandleSearch == Len(reqs) < MaxRemoteSearches /\ HandleSearch

\* The page with its remote calls: the load handler starts the daily verse,
\* the user searches; every fetch, every response.json() and every setTimeout
\* of a started call settles.
RemoteNext ==
    \/ RemoteSearchBible \/ RemoteHandleSearch
    \/ SbFetchSettles \/ SbJsonSettles
    \/ SvFetcherSettles \/ SvTimerFires \/ SvJsonSettles
    \/ DailyNext

SpecRemote ==
    /\ SearchInit
    /\ [][RemoteNext]_vars
    /\ WF_vars(LoadDailyVerse) /\ WF_vars(LdvFetchSettles) /\ WF_vars(LdvJsonSettles)
    /\ WF_vars(FetchDailyDevotion) /\ WF_vars(FddFetcherSettles)
    /\ WF_vars(FddTimerFires) /\ WF_vars(FddJsonSettles)
    /\ WF_vars(SbFetchSettles) /\ WF_vars(SbJsonSettles)
    /\ WF_vars(SvFetcherSettles) /\ WF_vars(SvTimerFires) /\ WF_vars(SvJsonSettles)

\* the display a failed daily verse request is to end with: the default verse
\* of loadDailyVerse, a message of fetchDailyDevotion
DailyFallbackShown ==
    IF page = "script.js"
    THEN vdom = DefaultVerse
    ELSE vdom.verse \in {DevotionFallback.verse, "Error: Could not retrieve verse."}

(* C11: every remote-call handler whose request fails reaches a terminal
   display, every started fetcher call settling: loadDailyVerse ends with the
   default verse 'Psalm 23:1', fetchDailyDevotion with its fallback message,
   a failed searchBible / searchBibleVerse with the error panel shown (and
   the loading message hidden in part_000), whatever the failure: a non-ok
   status, a transport error, exhausted retries, or a successful response
   without the expected field; and every started handler does end. *)
C11_FailureEndsInFallback ==
    /\ []((dv.pc = "done" /\ dv.failure # "none") => DailyFallbackShown)
    /\ [][\A k \in 1..Len(reqs) :
              (reqs[k].outcome # "error" /\ reqs'[k].outcome = "error") =>
                  /\ dom'.errorContent.kind = "message" /\ dom'.errorContent.of = k
                  /\ dom'.errorDisplay = "block"
                  /\ page = "part_000" => dom'.loadingDisplay = "none"]_vars
    /\ <>(dv.pc = "done")
    /\ \A k \in 1..MaxRemoteSearches :
          (Len(reqs) >= k) ~> (Len(reqs) >= k /\ reqs[k].pc = "done")

====
